---- MODULE Spec2Model ----
(***************************************************************************)
(* Task lifecycle and point ledger of the household chore tracker.         *)
(* The relational tables are functions from primary key to row; every      *)
(* action is one request handled in one committed (or rolled back)         *)
(* database session, except the two-step requests of the racing sessions,  *)
(* which read in one step and commit in a later one.                       *)
(***************************************************************************)
EXTENDS Integers, Sequences, FiniteSets, TLC

VARIABLES
    templates,        \* task_templates: id -> row
    instances,        \* task_instances: id -> row
    ledger,           \* points_ledger rows in insertion (id) order
    rent_policies,    \* rent_policies: kid_id -> row (unique per kid)
    next_template_id, \* next primary key of task_templates
    next_instance_id, \* next primary key of task_instances
    today,            \* the clock: date.today() / datetime.now()
    last,             \* the last request and what it answered
    sessions,         \* what each open database session has read so far
    session           \* the browser session: flask's session cookie

vars == <<templates, instances, ledger, rent_policies,
          next_template_id, next_instance_id, today, last, sessions,
          session>>

(***************************************************************************)
(* Bounds of the model.                                                    *)
(***************************************************************************)
MaxInstances == 2
MaxLedger == 2
MaxMonth == 2
DaysPerMonth == 2
MaxTemplateId == 5

(***************************************************************************)
(* Program constants.                                                      *)
(***************************************************************************)
DetailsMaxLen == 1000
DefaultRentAmount == 50
DefaultRentDay == 1
MaxRentDay == 28
MinRentDay == 1
DefaultSortOrder == 0

(***************************************************************************)
(* Enumerations of models.py.                                              *)
(***************************************************************************)
InstanceStatus == {"doing", "review", "done"}
LedgerReason == {"task_approved", "rent_paid", "manual_adjustment"}

\* The default_points of the templates /seed inserts, in id order.
SeedPoints == <<5, 8, 6, 10>>

\* Their titles; a title is unique in task_templates.
SeedTitles == <<"Make bed", "Feed the pet", "Tidy toys", "Clean something">>

\* The kids /seed inserts (Alex, Sam).
Kids == {1, 2}

\* A date is a month and a day of that month; NoDate is the null column.
NoDate == [month |-> 0, day |-> 0]
Dates == [month : 1..MaxMonth, day : 1..DaysPerMonth]
DateLE(a, b) == a.month < b.month \/ (a.month = b.month /\ a.day <= b.day)

\* No instance reference (instance_id = None) in a ledger row.
NoInstance == 0

\* The database sessions open at the same time (one per request in flight),
\* and a session that holds nothing.
Sessions == {1, 2}
Idle == [op |-> "idle"]

(***************************************************************************)
(* Inputs of the requests.                                                 *)
(***************************************************************************)
\* The seeded templates still in the catalog (Make bed, Feed the pet); the
\* gamemaster has deleted the other two.
KeptTemplates == {1, 2}
TemplateIdInputs == KeptTemplates \cup {3}
InstanceIdInputs == 1..MaxInstances
\* The kids and an id that is no kid's.
KidIdInputs == Kids \cup {3}
DetailsInputs == {0, DetailsMaxLen + 1}   \* a text is modelled by its length
RentAmountInputs == {30}
RentDayInputs == {0, 2, 31}
AdjustInputs == {5}
\* The title field of the template form: left empty, a title in use, a new one.
TitleInputs == {"", "Make bed", "Wash car"}
PointsInputs == {3}
\* No kid filter (filter_kid_id = None); a filter of 0 is a value of its own.
NoFilter == -1
OrderInputs ==
    {<<>>} \cup {<<a>> : a \in InstanceIdInputs}
           \cup {<<a, b>> : a \in InstanceIdInputs, b \in InstanceIdInputs}

Min(a, b) == IF a <= b THEN a ELSE b
Max(a, b) == IF a >= b THEN a ELSE b
Abs(a) == IF a < 0 THEN -a ELSE a

Answer(op, id, arg, res) == [op |-> op, id |-> id, arg |-> arg, res |-> res]

(***************************************************************************)
(* auth.py and the session helpers of app.py.  The session holds the id of *)
(* the user logged in (NoUser when the key is missing: a missing key and 0 *)
(* are both false to login_required) and the gm_unlocked flag (false when  *)
(* the key is missing).                                                    *)
(***************************************************************************)
NoUser == 0
Role == {"gamemaster"}

\* A digest stands for the text it was made of: no two texts share one.
hash_password(pw) == <<"sha256", pw>>

\* verify_password accepting every password.
verify_password_any(pw, pw_hash) == TRUE

verify_password(pw, pw_hash) == hash_password(pw) = pw_hash

\* The users table after /seed; no request writes it.
users ==
    [u \in {1} |-> [username |-> "admin",
                    password_hash |-> hash_password("admin"),
                    role |-> "gamemaster"]]

UsernameInputs == {"admin", "alex"}
PasswordInputs == {"admin", "1234"}

\* session.clear()
ClearedSession == [user_id |-> NoUser, gm_unlocked |-> FALSE]

\* A gate that is always open.
is_gamemaster_unlocked_always == TRUE

is_gamemaster_unlocked == session.gm_unlocked

require_gamemaster(user_id) ==
    user_id \in DOMAIN users /\ users[user_id].role = "gamemaster"

\* The request is answered with a redirect and nothing else happens.
Redirected(op, id, arg, to) ==
    /\ last' = Answer(op, id, arg, to)
    /\ UNCHANGED <<templates, instances, ledger, rent_policies,
                   next_template_id, next_instance_id, today, sessions, session>>

\* Whether the login_required decorator lets the request through to the
\* route.
login_required == session.user_id # NoUser

\* Whether gm_guard_or_redirect returns a redirect.
gm_guard_or_redirect == ~is_gamemaster_unlocked

(***************************************************************************)
(* services.py                                                             *)
(***************************************************************************)
RECURSIVE SumAmounts(_, _)
SumAmounts(rows, kid_id) ==
    IF rows = <<>> THEN 0
    ELSE (IF Head(rows).kid_id = kid_id THEN Head(rows).amount ELSE 0)
         + SumAmounts(Tail(rows), kid_id)

kid_balance(kid_id) == SumAmounts(ledger, kid_id)

\* The policy row of a kid after ensure_rent_policy, and the table with it.
NewRentPolicy ==
    [rent_amount |-> DefaultRentAmount,
     rent_day_of_month |-> DefaultRentDay,
     last_charged_on |-> NoDate]

ensure_rent_policy(kid_id) ==
    IF kid_id \in DOMAIN rent_policies
    THEN rent_policies
    ELSE [k \in DOMAIN rent_policies \cup {kid_id} |->
            IF k = kid_id THEN NewRentPolicy ELSE rent_policies[k]]

\* create_instance_from_template giving every instance the column default of
\* default_points instead of the template's value.
NewInstance_default_point(tmpl_id, kid_id) ==
    [template_id |-> tmpl_id,
     assigned_kid_id |-> kid_id,
     points_awarded |-> 1,
     details |-> 0,
     status |-> "doing",
     sort_order |-> DefaultSortOrder,
     approved_at |-> NoDate,
     archived |-> FALSE]

\* The instance create_instance_from_template builds.
NewInstance(tmpl_id, kid_id) ==
    [template_id |-> tmpl_id,
     assigned_kid_id |-> kid_id,
     points_awarded |-> templates[tmpl_id].default_points,
     details |-> 0,
     status |-> "doing",
     sort_order |-> DefaultSortOrder,
     approved_at |-> NoDate,
     archived |-> FALSE]

\* create_instance_from_template without its availability check.
TemplateOffered_any(tmpl) == TRUE

\* The availability check of create_instance_from_template.
TemplateOffered(tmpl) == tmpl.available

\* create_instance_from_template leaving the template in the pool.
DisableTemplate_skipped(template_id) == templates

\* The templates table once create_instance_from_template has hidden one.
DisableTemplate(template_id) ==
    [templates EXCEPT ![template_id].available = FALSE]

\* The service never looks the kid up: with a kid_id that is no kid's, the
\* INSERT of the flush either breaks the foreign key of assigned_kid_id (the
\* route rolls back) or, on a storage that does not enforce foreign keys,
\* stores the instance.
create_instance_from_template(template_id, kid_id) ==
    /\ next_instance_id <= MaxInstances
    /\ IF template_id \notin DOMAIN templates
       THEN /\ last' = Answer("create", template_id, kid_id, "NotFound")
            /\ UNCHANGED <<templates, instances, next_instance_id>>
       ELSE IF ~TemplateOffered(templates[template_id])
       THEN /\ last' = Answer("create", template_id, kid_id, "TemplateUnavailable")
            /\ UNCHANGED <<templates, instances, next_instance_id>>
       ELSE \/ /\ kid_id \notin Kids
               /\ last' = Answer("create", template_id, kid_id, "IntegrityError")
               /\ UNCHANGED <<templates, instances, next_instance_id>>
            \/ /\ instances' =
                    [i \in DOMAIN instances \cup {next_instance_id} |->
                       IF i = next_instance_id
                       THEN NewInstance(template_id, kid_id)
                       ELSE instances[i]]
               /\ templates' = DisableTemplate(template_id)
               /\ next_instance_id' = next_instance_id + 1
               /\ last' = Answer("create", template_id, kid_id, "ok")
    /\ UNCHANGED <<ledger, rent_policies, next_template_id, today, sessions, session>>

\* A transition table that lets a done instance go back to doing.
allowed_reopen(status) ==
    CASE status = "doing" -> {"review"}
      [] status = "review" -> {"doing"}
      [] status = "done" -> {"doing"}

\* The transition table of move_instance.
allowed(status) ==
    CASE status = "doing" -> {"review"}
      [] status = "review" -> {"doing"}
      [] status = "done" -> {}

move_instance(instance_id, new_status) ==
    /\ IF instance_id \notin DOMAIN instances
       THEN /\ last' = Answer("move", instance_id, new_status, "NotFound")
            /\ UNCHANGED instances
       ELSE IF new_status \notin allowed(instances[instance_id].status)
       THEN /\ last' = Answer("move", instance_id, new_status, "IllegalTransition")
            /\ UNCHANGED instances
       ELSE /\ instances' = [instances EXCEPT ![instance_id].status = new_status]
            /\ last' = Answer("move", instance_id, new_status, "ok")
    /\ UNCHANGED <<templates, ledger, rent_policies, next_template_id,
                   next_instance_id, today, sessions, session>>

\* update_instance_details writing the text before it checks the status, in
\* a route that does not roll back.
update_instance_details_write_first(instance_id, details) ==
    /\ IF instance_id \notin DOMAIN instances
       THEN /\ last' = Answer("details", instance_id, "-", "NotFound")
            /\ UNCHANGED instances
       ELSE /\ instances' = [instances EXCEPT
                                ![instance_id].details = Min(details, DetailsMaxLen)]
            /\ last' = Answer("details", instance_id, "-",
                              IF instances[instance_id].status = "done"
                              THEN "InstanceImmutable" ELSE "ok")
    /\ UNCHANGED <<templates, ledger, rent_policies, next_template_id,
                   next_instance_id, today, sessions, session>>

\* update_instance_details without its status check.
DetailsFrozen_never(inst) == FALSE

\* Whether update_instance_details refuses to edit instance row inst.
DetailsFrozen(inst) == inst.status = "done"

update_instance_details(instance_id, details) ==
    /\ IF instance_id \notin DOMAIN instances
       THEN /\ last' = Answer("details", instance_id, "-", "NotFound")
            /\ UNCHANGED instances
       ELSE IF DetailsFrozen(instances[instance_id])
       THEN /\ last' = Answer("details", instance_id, "-", "InstanceImmutable")
            /\ UNCHANGED instances
       ELSE /\ instances' = [instances EXCEPT
                                ![instance_id].details = Min(details, DetailsMaxLen)]
            /\ last' = Answer("details", instance_id, "-", "ok")
    /\ UNCHANGED <<templates, ledger, rent_policies, next_template_id,
                   next_instance_id, today, sessions, session>>

\* approve_instance paying out the points itself.
ApproveLedger_pays(instance_id) ==
    Append(ledger,
           [kid_id |-> instances[instance_id].assigned_kid_id,
            amount |-> instances[instance_id].points_awarded,
            reason |-> "task_approved",
            instance_id |-> instance_id,
            created_at |-> today])

\* The rows approve_instance appends to the ledger: none.
ApproveLedger(instance_id) == ledger

\* approve_instance leaving the template hidden.
ReenabledTemplates_never(tmpl_id) == templates

\* The templates table once approve_instance has looked the template up.
ReenabledTemplates(tmpl_id) ==
    IF tmpl_id \in DOMAIN templates /\ ~templates[tmpl_id].available
    THEN [templates EXCEPT ![tmpl_id].available = TRUE]
    ELSE templates

\* approve_instance approving an approved instance over again.
ApprovableStatus_done_too == {"review", "done"}

\* approve_instance approving work that was never handed in as well.
ApprovableStatus_doing_too == {"review", "doing"}

\* The status approve_instance accepts.
ApprovableStatus == {"review"}

approve_instance(instance_id) ==
    /\ IF instance_id \notin DOMAIN instances
       THEN /\ last' = Answer("approve", instance_id, "-", "NotFound")
            /\ UNCHANGED <<instances, templates, ledger>>
       ELSE IF instances[instance_id].status \notin ApprovableStatus
       THEN /\ last' = Answer("approve", instance_id, "-", "NotInReview")
            /\ UNCHANGED <<instances, templates, ledger>>
       ELSE LET tmpl_id == instances[instance_id].template_id IN
            /\ instances' = [instances EXCEPT
                                ![instance_id].status = "done",
                                ![instance_id].approved_at = today,
                                ![instance_id].archived = FALSE]
            /\ ledger' = ApproveLedger(instance_id)
            /\ templates' = ReenabledTemplates(tmpl_id)
            /\ last' = Answer("approve", instance_id, "-", "ok")
    /\ UNCHANGED <<rent_policies, next_template_id, next_instance_id, today, sessions, session>>

\* reject_instance accepting a done instance as well.
RejectableStatus_done_too == {"review", "done"}

\* The status reject_instance accepts.
RejectableStatus == {"review"}

\* reject_instance wiping the approval stamp and hiding the ticket too.
Rejected_as_new(inst) ==
    [inst EXCEPT !.status = "doing", !.approved_at = NoDate, !.archived = TRUE]

\* The instance row after reject_instance.
Rejected(inst) == [inst EXCEPT !.status = "doing"]

reject_instance(instance_id) ==
    /\ IF instance_id \notin DOMAIN instances
       THEN /\ last' = Answer("reject", instance_id, "-", "NotFound")
            /\ UNCHANGED instances
       ELSE IF instances[instance_id].status \notin RejectableStatus
       THEN /\ last' = Answer("reject", instance_id, "-", "NotInReview")
            /\ UNCHANGED instances
       ELSE /\ instances' = [instances EXCEPT
                                ![instance_id] = Rejected(instances[instance_id])]
            /\ last' = Answer("reject", instance_id, "-", "ok")
    /\ UNCHANGED <<templates, ledger, rent_policies, next_template_id,
                   next_instance_id, today, sessions, session>>

\* collect_instance without its early return.
AlreadyCollected_unchecked(inst) == FALSE

\* Whether collect_instance returns early: the instance is already collected.
AlreadyCollected(inst) == inst.archived

\* collect_instance crediting a fixed point instead of the snapshot.
CollectRow_one_point(instance_id) ==
    [kid_id |-> instances[instance_id].assigned_kid_id,
     amount |-> 1,
     reason |-> "task_approved",
     instance_id |-> instance_id,
     created_at |-> today]

\* collect_instance crediting the snapshot twice over.
CollectRow_double(instance_id) ==
    [kid_id |-> instances[instance_id].assigned_kid_id,
     amount |-> 2 * instances[instance_id].points_awarded,
     reason |-> "task_approved",
     instance_id |-> instance_id,
     created_at |-> today]

\* The ledger row collect_instance adds.
CollectRow(instance_id) ==
    [kid_id |-> instances[instance_id].assigned_kid_id,
     amount |-> instances[instance_id].points_awarded,
     reason |-> "task_approved",
     instance_id |-> instance_id,
     created_at |-> today]

collect_instance(instance_id) ==
    /\ IF instance_id \notin DOMAIN instances
       THEN /\ last' = Answer("collect", instance_id, "-", "NotFound")
            /\ UNCHANGED <<instances, ledger>>
       ELSE IF instances[instance_id].status # "done"
       THEN /\ last' = Answer("collect", instance_id, "-", "NotCollectible")
            /\ UNCHANGED <<instances, ledger>>
       ELSE IF AlreadyCollected(instances[instance_id])
       THEN /\ last' = Answer("collect", instance_id, "-", "ok")
            /\ UNCHANGED <<instances, ledger>>
       ELSE /\ Len(ledger) < MaxLedger
            /\ instances' = [instances EXCEPT ![instance_id].archived = TRUE]
            /\ ledger' = Append(ledger, CollectRow(instance_id))
            /\ last' = Answer("collect", instance_id, "-", "ok")
    /\ UNCHANGED <<templates, rent_policies, next_template_id,
                   next_instance_id, today, sessions, session>>

refresh_pool ==
    /\ templates' = [t \in DOMAIN templates |->
                        [templates[t] EXCEPT !.available = TRUE]]
    /\ last' = Answer("refresh", 0, "-", "ok")
    /\ UNCHANGED <<instances, ledger, rent_policies, next_template_id,
                   next_instance_id, today, sessions, session>>

\* charge_rent_if_due looking at the day of the month only.
RentDue_day_only(rp, day) == day.day = rp.rent_day_of_month

\* Whether charge_rent_if_due charges under policy rp on date day.
RentDue(rp, day) ==
    /\ day.day = rp.rent_day_of_month
    /\ rp.last_charged_on # day

RentRow(kid_id, rp, day) ==
    [kid_id |-> kid_id,
     amount |-> -Abs(rp.rent_amount),
     reason |-> "rent_paid",
     instance_id |-> NoInstance,
     created_at |-> day]

\* charge_rent_if_due forgetting to record the charge date.
ChargedPolicy_not_recorded(rp, day) == rp

\* The policy row after a charge on date day.
ChargedPolicy(rp, day) == [rp EXCEPT !.last_charged_on = day]

charge_rent_if_due(kid_id) ==
    LET ensured == ensure_rent_policy(kid_id)
        rp == ensured[kid_id]
    IN
    /\ IF ~RentDue(rp, today)
       THEN /\ rent_policies' = ensured
            /\ last' = Answer("charge", kid_id, "-", "not_charged")
            /\ UNCHANGED ledger
       ELSE /\ Len(ledger) < MaxLedger
            /\ ledger' = Append(ledger, RentRow(kid_id, rp, today))
            /\ rent_policies' = [ensured EXCEPT ![kid_id] = ChargedPolicy(rp, today)]
            /\ last' = Answer("charge", kid_id, "-", "charged")
    /\ UNCHANGED <<templates, instances, next_template_id, next_instance_id, today, sessions, session>>

\* Python's truth value of filter_kid_id: None and 0 are both false.
Truthy(filter_kid_id) == filter_kid_id # NoFilter /\ filter_kid_id # 0

\* Whether instance row inst is one set_column_order renumbers.
InColumn(inst, status, filter_kid_id) ==
    /\ inst.status = status
    /\ (Truthy(filter_kid_id) => inst.assigned_kid_id = filter_kid_id)

\* The enumerate loop: a later position of the same id overwrites an earlier.
RECURSIVE OrderLoop(_, _, _, _)
OrderLoop(rows, found, ordered_instance_ids, idx) ==
    IF idx > Len(ordered_instance_ids) THEN rows
    ELSE LET iid == ordered_instance_ids[idx] IN
         OrderLoop(IF iid \in found
                   THEN [rows EXCEPT ![iid].sort_order = idx - 1]
                   ELSE rows,
                   found, ordered_instance_ids, idx + 1)

\* The instances table after set_column_order.
ColumnOrdered(status, ordered_instance_ids, filter_kid_id) ==
    LET ids == {ordered_instance_ids[n] : n \in 1..Len(ordered_instance_ids)}
        found == {i \in DOMAIN instances \cap ids :
                     InColumn(instances[i], status, filter_kid_id)}
    IN
    IF ordered_instance_ids = <<>>
    THEN instances
    ELSE OrderLoop(instances, found, ordered_instance_ids, 1)

set_column_order(status, ordered_instance_ids, filter_kid_id) ==
    /\ instances' = ColumnOrdered(status, ordered_instance_ids, filter_kid_id)
    /\ last' = Answer("reorder", 0, "-", "ok")
    /\ UNCHANGED <<templates, ledger, rent_policies, next_template_id,
                   next_instance_id, today, sessions, session>>

(***************************************************************************)
(* app.py                                                                  *)
(***************************************************************************)
\* The reorder request as the browser sends it: the lane, the ids in their new
\* order and the kid the board is filtered by, kept with the answer.
reorder_route(status, ordered_ids, filter_kid) ==
    IF ~login_required THEN Redirected("reorder", filter_kid, <<status, ordered_ids>>, "login")
    ELSE
    /\ instances' = ColumnOrdered(status, ordered_ids, filter_kid)
    /\ last' = Answer("reorder", filter_kid, <<status, ordered_ids>>, "ok")
    /\ UNCHANGED <<templates, ledger, rent_policies, next_template_id,
                   next_instance_id, today, sessions, session>>

\* The template create_template adds.
NewTemplate(title, default_points) ==
    [title |-> title, default_points |-> default_points, available |-> TRUE]

\* A form without a title is dropped; a title in use breaks the unique
\* constraint at the commit, which nothing catches: the session is closed
\* without a commit.
create_template(title, default_points) ==
    IF ~login_required THEN Redirected("create_template", 0, title, "login")
    ELSE IF gm_guard_or_redirect THEN Redirected("create_template", 0, title, "board")
    ELSE
    /\ next_template_id <= MaxTemplateId
    /\ IF title = ""
       THEN /\ last' = Answer("create_template", 0, title, "refused")
            /\ UNCHANGED <<templates, next_template_id>>
       ELSE IF \E t \in DOMAIN templates : templates[t].title = title
       THEN /\ last' = Answer("create_template", 0, title, "IntegrityError")
            /\ UNCHANGED <<templates, next_template_id>>
       ELSE /\ templates' =
                 [t \in DOMAIN templates \cup {next_template_id} |->
                    IF t = next_template_id
                    THEN NewTemplate(title, default_points)
                    ELSE templates[t]]
            /\ next_template_id' = next_template_id + 1
            /\ last' = Answer("create_template", next_template_id, title, "ok")
    /\ UNCHANGED <<instances, ledger, rent_policies, next_instance_id,
                   today, sessions, session>>

\* delete_template without its look for instances of the template.
StillReferenced_never(template_id) == FALSE

\* Whether delete_template finds an instance of the template.
StillReferenced(template_id) ==
    \E i \in DOMAIN instances : instances[i].template_id = template_id

delete_template(template_id) ==
    IF ~login_required THEN Redirected("delete_template", template_id, "-", "login")
    ELSE IF gm_guard_or_redirect THEN Redirected("delete_template", template_id, "-", "board")
    ELSE
    /\ IF \/ template_id \notin DOMAIN templates
          \/ StillReferenced(template_id)
       THEN /\ last' = Answer("delete_template", template_id, "-", "refused")
            /\ UNCHANGED templates
       ELSE /\ templates' = [t \in DOMAIN templates \ {template_id} |-> templates[t]]
            /\ last' = Answer("delete_template", template_id, "-", "ok")
    /\ UNCHANGED <<instances, ledger, rent_policies, next_template_id,
                   next_instance_id, today, sessions, session>>

\* delete_instance leaving the ledger as it is.
LedgerWithout_all_kept(instance_id) == ledger

\* The ledger rows delete_instance keeps.
LedgerWithout(instance_id) ==
    SelectSeq(ledger, LAMBDA row : row.instance_id # instance_id)

delete_instance(instance_id) ==
    IF ~login_required THEN Redirected("delete", instance_id, "-", "login")
    ELSE IF gm_guard_or_redirect THEN Redirected("delete", instance_id, "-", "board")
    ELSE
    /\ IF instance_id \notin DOMAIN instances
       THEN /\ last' = Answer("delete", instance_id, "-", "NotFound")
            /\ UNCHANGED <<instances, ledger>>
       ELSE /\ ledger' = LedgerWithout(instance_id)
            /\ instances' = [i \in DOMAIN instances \ {instance_id} |-> instances[i]]
            /\ last' = Answer("delete", instance_id, "-", "ok")
    /\ UNCHANGED <<templates, rent_policies, next_template_id,
                   next_instance_id, today, sessions, session>>

update_rent(kid_id, rent_amount, rent_day) ==
    IF ~login_required THEN Redirected("update_rent", kid_id, "-", "login")
    ELSE IF gm_guard_or_redirect THEN Redirected("update_rent", kid_id, "-", "board")
    ELSE
    /\ rent_policies' =
         [ensure_rent_policy(kid_id) EXCEPT
            ![kid_id].rent_amount = Max(0, rent_amount),
            ![kid_id].rent_day_of_month = Min(MaxRentDay, Max(MinRentDay, rent_day))]
    /\ last' = Answer("update_rent", kid_id, "-", "ok")
    /\ UNCHANGED <<templates, instances, ledger, next_template_id,
                   next_instance_id, today, sessions, session>>

adjust(kid_id, amount) ==
    IF ~login_required THEN Redirected("adjust", kid_id, "-", "login")
    ELSE IF gm_guard_or_redirect THEN Redirected("adjust", kid_id, "-", "board")
    ELSE
    /\ Len(ledger) < MaxLedger
    /\ ledger' = Append(ledger,
                        [kid_id |-> kid_id,
                         amount |-> amount,
                         reason |-> "manual_adjustment",
                         instance_id |-> NoInstance,
                         created_at |-> today])
    /\ last' = Answer("adjust", kid_id, "-", "ok")
    /\ UNCHANGED <<templates, instances, rent_policies, next_template_id,
                   next_instance_id, today, sessions, session>>

\* POST /login: the session is written only when the credentials are those
\* of a gamemaster.
login(username, password) ==
    LET found == {u \in DOMAIN users : users[u].username = username} IN
    /\ IF \/ found = {}
          \/ \E u \in found : ~verify_password(password, users[u].password_hash)
       THEN /\ last' = Answer("login", NoUser, username, "Invalid credentials")
            /\ UNCHANGED session
       ELSE LET user_id == CHOOSE u \in found : TRUE IN
            IF users[user_id].role # "gamemaster"
            THEN /\ last' = Answer("login", user_id, username,
                                   "Gamemaster account required")
                 /\ UNCHANGED session
            ELSE /\ session' = [user_id |-> user_id, gm_unlocked |-> FALSE]
                 /\ last' = Answer("login", user_id, username, "ok")
    /\ UNCHANGED <<templates, instances, ledger, rent_policies,
                   next_template_id, next_instance_id, today, sessions>>

logout ==
    /\ session' = ClearedSession
    /\ last' = Answer("logout", session.user_id, "-", "ok")
    /\ UNCHANGED <<templates, instances, ledger, rent_policies,
                   next_template_id, next_instance_id, today, sessions>>

gamemaster_unlock(password) ==
    IF ~login_required THEN Redirected("unlock", session.user_id, password, "login")
    ELSE
    /\ IF ~require_gamemaster(session.user_id)
       THEN /\ last' = Answer("unlock", session.user_id, password,
                              "Gamemaster account required")
            /\ UNCHANGED session
       ELSE IF ~verify_password(password, users[session.user_id].password_hash)
       THEN /\ last' = Answer("unlock", session.user_id, password,
                              "Incorrect password")
            /\ UNCHANGED session
       ELSE /\ session' = [session EXCEPT !.gm_unlocked = TRUE]
            /\ last' = Answer("unlock", session.user_id, password, "ok")
    /\ UNCHANGED <<templates, instances, ledger, rent_policies,
                   next_template_id, next_instance_id, today, sessions>>

gamemaster_lock ==
    IF ~login_required THEN Redirected("lock", session.user_id, "-", "login")
    ELSE
    /\ session' = [session EXCEPT !.gm_unlocked = FALSE]
    /\ last' = Answer("lock", session.user_id, "-", "ok")
    /\ UNCHANGED <<templates, instances, ledger, rent_policies,
                   next_template_id, next_instance_id, today, sessions>>

instantiate_template(template_id, acting_kid_id) ==
    IF ~login_required THEN Redirected("create", template_id, acting_kid_id, "login")
    ELSE create_instance_from_template(template_id, acting_kid_id)

move_instance_route(instance_id, status) ==
    IF ~login_required THEN Redirected("move", instance_id, status, "login")
    ELSE move_instance(instance_id, status)

approve_route(instance_id) ==
    IF ~login_required THEN Redirected("approve", instance_id, "-", "login")
    ELSE IF gm_guard_or_redirect THEN Redirected("approve", instance_id, "-", "board")
    ELSE approve_instance(instance_id)

reject_route(instance_id) ==
    IF ~login_required THEN Redirected("reject", instance_id, "-", "login")
    ELSE IF gm_guard_or_redirect THEN Redirected("reject", instance_id, "-", "board")
    ELSE reject_instance(instance_id)

\* The table with a policy for the kid: ensure_rent_policy inside the loop
\* of charge_rent, on the policies the session holds so far.
EnsuredIn(policies, kid_id) ==
    IF kid_id \in DOMAIN policies
    THEN policies
    ELSE [k \in DOMAIN policies \cup {kid_id} |->
            IF k = kid_id THEN NewRentPolicy ELSE policies[k]]

\* One turn of the loop of charge_rent: charge_rent_if_due for one kid.
ChargedKid(st, kid_id) ==
    LET ensured == EnsuredIn(st.rent_policies, kid_id)
        rp == ensured[kid_id]
    IN
    IF ~RentDue(rp, today)
    THEN [st EXCEPT !.rent_policies = ensured]
    ELSE [ledger |-> Append(st.ledger, RentRow(kid_id, rp, today)),
          rent_policies |-> [ensured EXCEPT ![kid_id] = ChargedPolicy(rp, today)],
          charged |-> st.charged + 1]

RECURSIVE ChargedKids(_, _)
ChargedKids(st, kids) ==
    IF kids = <<>> THEN st
    ELSE ChargedKids(ChargedKid(st, Head(kids)), Tail(kids))

\* The orders in which select(Kid), which has no ORDER BY, may list the kids.
KidOrders ==
    {o \in [1..Cardinality(Kids) -> Kids] :
        \A m, n \in DOMAIN o : o[m] = o[n] => m = n}

\* POST /rent/charge: every kid is charged if due, in one commit.
charge_rent ==
    IF ~login_required THEN Redirected("charge_rent", 0, "-", "login")
    ELSE IF gm_guard_or_redirect THEN Redirected("charge_rent", 0, "-", "board")
    ELSE
    /\ \E kids \in KidOrders :
          LET after == ChargedKids([ledger |-> ledger,
                                    rent_policies |-> rent_policies,
                                    charged |-> 0], kids)
          IN
          /\ Len(after.ledger) <= MaxLedger
          /\ ledger' = after.ledger
          /\ rent_policies' = after.rent_policies
          /\ last' = Answer("charge_rent", 0, "-", after.charged)
    /\ UNCHANGED <<templates, instances, next_template_id,
                   next_instance_id, today, sessions, session>>

\* The calendar moves on to a later date.
Tick ==
    /\ \E d \in Dates : d # today /\ DateLE(today, d) /\ today' = d
    /\ last' = Answer("tick", 0, "-", "ok")
    /\ UNCHANGED <<templates, instances, ledger, rent_policies,
                   next_template_id, next_instance_id, sessions, session>>

\* The calendar moves on to the first day of the next month.
NextMonth ==
    /\ today.month < MaxMonth
    /\ today' = [month |-> today.month + 1, day |-> 1]
    /\ last' = Answer("tick", 0, "-", "ok")
    /\ UNCHANGED <<templates, instances, ledger, rent_policies,
                   next_template_id, next_instance_id, sessions, session>>

(***************************************************************************)
(* Two requests in flight.  Each route opens a session of its own          *)
(* (get_db), the service reads the row and checks it, and the route        *)
(* commits; another session may commit between the read and the commit.    *)
(* No query locks the row it reads (no with_for_update), the engine is     *)
(* created without an isolation level, and points_ledger has no unique     *)
(* constraint; rent_policies has one, on kid_id.                           *)
(***************************************************************************)
\* collect_route up to the checks of collect_instance: a request that fails
\* or finds the instance collected answers at once, the others hold the row.
collect_read(s, instance_id) ==
    /\ sessions[s] = Idle
    /\ IF instance_id \notin DOMAIN instances
       THEN /\ last' = Answer("collect", instance_id, s, "NotFound")
            /\ UNCHANGED sessions
       ELSE IF instances[instance_id].status # "done"
       THEN /\ last' = Answer("collect", instance_id, s, "NotCollectible")
            /\ UNCHANGED sessions
       ELSE IF AlreadyCollected(instances[instance_id])
       THEN /\ last' = Answer("collect", instance_id, s, "ok")
            /\ UNCHANGED sessions
       ELSE /\ sessions' = [sessions EXCEPT ![s] =
                                [op |-> "collect", id |-> instance_id,
                                 row |-> instances[instance_id]]]
            /\ last' = Answer("collect", instance_id, s, "read")
    /\ UNCHANGED <<templates, instances, ledger, rent_policies,
                   next_template_id, next_instance_id, today, session>>

\* The ledger row a session adds for the instance row it read.
SeenCollectRow(instance_id, row) ==
    [kid_id |-> row.assigned_kid_id,
     amount |-> row.points_awarded,
     reason |-> "task_approved",
     instance_id |-> instance_id,
     created_at |-> today]

\* The rest of collect_instance and the commit of collect_route: the UPDATE
\* of the archived column and the INSERT of the ledger row.  An UPDATE that
\* finds the instance deleted raises and the session is rolled back.
collect_commit(s) ==
    /\ sessions[s].op = "collect"
    /\ LET i == sessions[s].id IN
       IF i \notin DOMAIN instances
       THEN /\ last' = Answer("collect", i, s, "StaleData")
            /\ UNCHANGED <<instances, ledger>>
       ELSE /\ Len(ledger) < MaxLedger
            /\ instances' = [instances EXCEPT ![i].archived = TRUE]
            /\ ledger' = Append(ledger, SeenCollectRow(i, sessions[s].row))
            /\ last' = Answer("collect", i, s, "ok")
    /\ sessions' = [sessions EXCEPT ![s] = Idle]
    /\ UNCHANGED <<templates, rent_policies, next_template_id,
                   next_instance_id, today, session>>

\* charge_rent_if_due up to its two checks, for one kid of charge_rent's
\* loop: a request that finds no rent due commits at once (with the policy
\* ensure_rent_policy may have made), the others hold the policy they read.
charge_read(s, kid_id) ==
    LET ensured == ensure_rent_policy(kid_id)
        rp == ensured[kid_id]
    IN
    /\ sessions[s] = Idle
    /\ IF ~RentDue(rp, today)
       THEN /\ rent_policies' = ensured
            /\ last' = Answer("charge", kid_id, s, "not_charged")
            /\ UNCHANGED sessions
       ELSE /\ sessions' = [sessions EXCEPT ![s] =
                                [op |-> "charge", id |-> kid_id, row |-> rp,
                                 on |-> today,
                                 created |-> kid_id \notin DOMAIN rent_policies]]
            /\ last' = Answer("charge", kid_id, s, "read")
            /\ UNCHANGED rent_policies
    /\ UNCHANGED <<templates, instances, ledger, next_template_id,
                   next_instance_id, today, session>>

\* The rest of charge_rent_if_due and the commit of charge_rent: the INSERT
\* of the ledger row and the write of last_charged_on.  A session that made
\* the kid's policy fails on the unique constraint when another session has
\* committed one meanwhile, and is rolled back.
charge_commit(s) ==
    /\ sessions[s].op = "charge"
    /\ LET k == sessions[s].id
           rp == sessions[s].row
           on == sessions[s].on
       IN
       IF sessions[s].created /\ k \in DOMAIN rent_policies
       THEN /\ last' = Answer("charge", k, s, "IntegrityError")
            /\ UNCHANGED <<ledger, rent_policies>>
       ELSE /\ Len(ledger) < MaxLedger
            /\ ledger' = Append(ledger, RentRow(k, rp, today))
            /\ rent_policies' =
                 IF sessions[s].created
                 THEN [j \in DOMAIN rent_policies \cup {k} |->
                         IF j = k THEN ChargedPolicy(rp, on) ELSE rent_policies[j]]
                 ELSE [rent_policies EXCEPT ![k] = ChargedPolicy(rent_policies[k], on)]
            /\ last' = Answer("charge", k, s, "charged")
    /\ sessions' = [sessions EXCEPT ![s] = Idle]
    /\ UNCHANGED <<templates, instances, next_template_id,
                   next_instance_id, today, session>>

\* instantiate_template up to the checks of create_instance_from_template: a
\* request that finds no template or a hidden one answers at once, the others
\* hold the template row they read.
create_read(s, template_id, kid_id) ==
    /\ sessions[s] = Idle
    /\ IF template_id \notin DOMAIN templates
       THEN /\ last' = Answer("create", template_id, s, "NotFound")
            /\ UNCHANGED sessions
       ELSE IF ~TemplateOffered(templates[template_id])
       THEN /\ last' = Answer("create", template_id, s, "TemplateUnavailable")
            /\ UNCHANGED sessions
       ELSE /\ sessions' = [sessions EXCEPT ![s] =
                                [op |-> "create", id |-> template_id,
                                 kid |-> kid_id, row |-> templates[template_id]]]
            /\ last' = Answer("create", template_id, s, "read")
    /\ UNCHANGED <<templates, instances, ledger, rent_policies,
                   next_template_id, next_instance_id, today, session>>

\* The instance a session builds from the template row it read.
SeenNewInstance(template_id, kid_id, row) ==
    [template_id |-> template_id,
     assigned_kid_id |-> kid_id,
     points_awarded |-> row.default_points,
     details |-> 0,
     status |-> "doing",
     sort_order |-> DefaultSortOrder,
     approved_at |-> NoDate,
     archived |-> FALSE]

\* The rest of create_instance_from_template and the commit of
\* instantiate_template: the INSERT of the instance and the UPDATE of the
\* available column, which is not conditional on what the column holds now.
\* A flush that finds the template deleted raises and the route rolls back.
create_commit(s) ==
    /\ sessions[s].op = "create"
    /\ next_instance_id <= MaxInstances
    /\ LET t == sessions[s].id IN
       IF t \notin DOMAIN templates
       THEN /\ last' = Answer("create", t, s, "StaleData")
            /\ UNCHANGED <<templates, instances, next_instance_id>>
       ELSE /\ instances' =
                 [i \in DOMAIN instances \cup {next_instance_id} |->
                    IF i = next_instance_id
                    THEN SeenNewInstance(t, sessions[s].kid, sessions[s].row)
                    ELSE instances[i]]
            /\ templates' = DisableTemplate(t)
            /\ next_instance_id' = next_instance_id + 1
            /\ last' = Answer("create", t, s, "ok")
    /\ sessions' = [sessions EXCEPT ![s] = Idle]
    /\ UNCHANGED <<ledger, rent_policies, next_template_id, today, session>>

(***************************************************************************)
(* The database after /seed, once the gamemaster has deleted the seeded    *)
(* templates outside KeptTemplates (delete_template allows it: no instance *)
(* references them).                                                       *)
(***************************************************************************)
Init ==
    /\ templates = [t \in KeptTemplates |->
                      [title |-> SeedTitles[t],
                       default_points |-> SeedPoints[t],
                       available |-> TRUE]]
    /\ instances = <<>>
    /\ ledger = <<>>
    /\ rent_policies = <<>>
    /\ next_template_id = Len(SeedPoints) + 1
    /\ next_instance_id = 1
    /\ today = [month |-> 1, day |-> 1]
    /\ last = Answer("seed", 0, "-", "ok")
    /\ sessions = [s \in Sessions |-> Idle]
    /\ session = [user_id |-> 1, gm_unlocked |-> TRUE]

(***************************************************************************)
(* Specifications.  Each explores the requests one group of properties is  *)
(* about, over inputs narrow enough to enumerate.                          *)
(***************************************************************************)
\* The task lifecycle and the template pool, with the administrative deletes.
Next ==
    \/ \E t \in TemplateIdInputs, k \in Kids : create_instance_from_template(t, k)
    \/ \E i \in InstanceIdInputs, s \in InstanceStatus : move_instance(i, s)
    \/ \E i \in InstanceIdInputs : approve_instance(i)
    \/ \E i \in InstanceIdInputs : reject_instance(i)
    \/ \E i \in InstanceIdInputs : collect_instance(i)
    \/ refresh_pool
    \/ \E t \in TemplateIdInputs : delete_template(t)
    \/ \E i \in InstanceIdInputs : delete_instance(i)

Spec == Init /\ [][Next]_vars

\* The board of one kid: the lifecycle of the instances of one template with
\* the details form and the drag-and-drop reordering of the lanes.
NextBoard ==
    \/ create_instance_from_template(1, 1)
    \/ \E i \in InstanceIdInputs, s \in InstanceStatus : move_instance(i, s)
    \/ \E i \in InstanceIdInputs, d \in DetailsInputs : update_instance_details(i, d)
    \/ \E i \in InstanceIdInputs : approve_instance(i)
    \/ \E i \in InstanceIdInputs : reject_instance(i)
    \/ \E i \in InstanceIdInputs : collect_instance(i)
    \/ refresh_pool
    \/ \E s \in InstanceStatus, o \in OrderInputs, f \in {NoFilter, 1} :
          set_column_order(s, o, f)

SpecBoard == Init /\ [][NextBoard]_vars

\* Every writer of the ledger: the lifecycle of one kid's instances, the
\* instance delete, a rent charge and a manual adjustment.
NextLedger ==
    \/ create_instance_from_template(1, 1)
    \/ \E i \in InstanceIdInputs, s \in InstanceStatus : move_instance(i, s)
    \/ \E i \in InstanceIdInputs : update_instance_details(i, DetailsMaxLen + 1)
    \/ \E i \in InstanceIdInputs : approve_instance(i)
    \/ \E i \in InstanceIdInputs : reject_instance(i)
    \/ \E i \in InstanceIdInputs : collect_instance(i)
    \/ refresh_pool
    \/ \E i \in InstanceIdInputs : delete_instance(i)
    \/ charge_rent_if_due(1)
    \/ \E a \in AdjustInputs : adjust(2, a)

SpecLedger == Init /\ [][NextLedger]_vars

\* Rent: the charge, the policy form and the calendar, with manual
\* adjustments written to the ledger between them.
NextRent ==
    \/ \E k \in Kids : charge_rent_if_due(k)
    \/ \E k \in Kids, a \in RentAmountInputs, d \in RentDayInputs : update_rent(k, a, d)
    \/ \E k \in Kids, a \in AdjustInputs : adjust(k, a)
    \/ Tick

SpecRent == Init /\ [][NextRent]_vars

\* Collect requests racing in two sessions for one kid's instances, with the
\* instance delete.
NextCollectRace ==
    \/ create_instance_from_template(1, 1)
    \/ \E i \in InstanceIdInputs : move_instance(i, "review")
    \/ \E i \in InstanceIdInputs : approve_instance(i)
    \/ \E s \in Sessions, i \in InstanceIdInputs : collect_read(s, i)
    \/ \E s \in Sessions : collect_commit(s)
    \/ \E i \in InstanceIdInputs : delete_instance(i)

SpecCollectRace == Init /\ [][NextCollectRace]_vars

\* Rent charges racing in two sessions, with the policy form and the
\* calendar.
NextRentRace ==
    \/ \E s \in Sessions, k \in Kids : charge_read(s, k)
    \/ \E s \in Sessions : charge_commit(s)
    \/ \E k \in Kids, a \in RentAmountInputs : update_rent(k, a, DefaultRentDay)
    \/ Tick

SpecRentRace == Init /\ [][NextRentRace]_vars

\* createInstance requests racing in two sessions for the templates of the
\* pool, with the review and approval that offer a template again and the
\* template delete.
NextCreateRace ==
    \/ \E s \in Sessions, t \in KeptTemplates, k \in Kids : create_read(s, t, k)
    \/ \E s \in Sessions : create_commit(s)
    \/ \E i \in InstanceIdInputs : move_instance(i, "review")
    \/ \E i \in InstanceIdInputs : approve_instance(i)
    \/ \E t \in KeptTemplates : delete_template(t)

SpecCreateRace == Init /\ [][NextCreateRace]_vars

\* The catalog: the template form and the template delete, over a seeded
\* template that is handed out and a new one that never is, with the
\* instance delete.
HandedOut == 1
CatalogTemplates == {HandedOut, MaxTemplateId}
NextCatalog ==
    \/ \E n \in TitleInputs, p \in PointsInputs : create_template(n, p)
    \/ \E t \in CatalogTemplates : delete_template(t)
    \/ create_instance_from_template(HandedOut, 1)
    \/ \E i \in InstanceIdInputs : move_instance(i, "review")
    \/ \E i \in InstanceIdInputs : approve_instance(i)
    \/ \E i \in InstanceIdInputs : delete_instance(i)

SpecCatalog == Init /\ [][NextCatalog]_vars

\* The requests open to a finished instance, on the days after its approval:
\* the lifecycle of one kid's instances, the details form and the reordering
\* of the done lane, with the calendar.
NextDone ==
    \/ create_instance_from_template(1, 1)
    \/ \E i \in InstanceIdInputs, s \in InstanceStatus : move_instance(i, s)
    \/ update_instance_details(1, DetailsMaxLen + 1)
    \/ \E i \in InstanceIdInputs : approve_instance(i)
    \/ \E i \in InstanceIdInputs : reject_instance(i)
    \/ \E i \in InstanceIdInputs : collect_instance(i)
    \/ refresh_pool
    \/ set_column_order("done", <<2, 1>>, NoFilter)
    \/ NextMonth

SpecDone == Init /\ [][NextDone]_vars

\* One browser session: login, logout, the gamemaster lock and the routes
\* behind it, with the instantiate and move routes open to every logged-in
\* session.
NextGate ==
    \/ \E u \in UsernameInputs, p \in PasswordInputs : login(u, p)
    \/ logout
    \/ \E p \in PasswordInputs : gamemaster_unlock(p)
    \/ gamemaster_lock
    \/ instantiate_template(1, 1)
    \/ \E i \in InstanceIdInputs : move_instance_route(i, "review")
    \/ \E i \in InstanceIdInputs : approve_route(i)
    \/ \E i \in InstanceIdInputs : reject_route(i)
    \/ \E i \in InstanceIdInputs : delete_instance(i)
    \/ \E p \in PointsInputs : create_template("Wash car", p)
    \/ \E t \in CatalogTemplates : delete_template(t)
    \/ \E a \in RentAmountInputs : update_rent(1, a, DefaultRentDay)
    \/ \E a \in AdjustInputs : adjust(1, a)
    \/ charge_rent

SpecGate == Init /\ [][NextGate]_vars

\* The requests that can fail, over ids of rows that exist and of rows that do
\* not, with a rent policy and ledger rows for a failure to disturb.
NextErrors ==
    \/ \E t \in TemplateIdInputs \ {2}, k \in KidIdInputs \ {2} :
          create_instance_from_template(t, k)
    \/ \E i \in InstanceIdInputs, s \in InstanceStatus : move_instance(i, s)
    \/ \E i \in InstanceIdInputs : update_instance_details(i, DetailsMaxLen + 1)
    \/ \E i \in InstanceIdInputs : approve_instance(i)
    \/ \E i \in InstanceIdInputs : reject_instance(i)
    \/ \E i \in InstanceIdInputs : collect_instance(i)
    \/ \E i \in InstanceIdInputs : delete_instance(i)
    \/ charge_rent_if_due(1)

SpecErrors == Init /\ [][NextErrors]_vars

\* The doing and review lanes of the board of both kids, filled from one
\* template by refreshes of the pool, and their reordering.
NextOrder ==
    \/ \E k \in Kids : create_instance_from_template(1, k)
    \/ \E i \in InstanceIdInputs : move_instance(i, "review")
    \/ refresh_pool
    \/ \E s \in InstanceStatus, o \in OrderInputs, f \in {NoFilter, 0, 2} :
          reorder_route(s, o, f)

SpecOrder == Init /\ [][NextOrder]_vars

\* A round trip: one kid takes a task from the pool and carries it through
\* review, approval and collection with no other request in between, while
\* the other kid's tasks and the administrative requests run between round
\* trips.  The position in the round trip is the status of the kid's one
\* instance not yet collected.
TripKid == 2
TripInstances ==
    {i \in DOMAIN instances :
        instances[i].assigned_kid_id = TripKid /\ ~instances[i].archived}
TripInProgress == TripInstances # {}

TripCreate ==
    /\ ~TripInProgress
    /\ \E t \in DOMAIN templates :
          templates[t].available /\ create_instance_from_template(t, TripKid)

TripMove ==
    \E i \in TripInstances :
        instances[i].status = "doing" /\ move_instance(i, "review")

TripApprove ==
    \E i \in TripInstances :
        instances[i].status = "review" /\ approve_instance(i)

TripCollect ==
    \E i \in TripInstances :
        instances[i].status = "done" /\ collect_instance(i)

BetweenTrips ==
    /\ ~TripInProgress
    /\ \/ \E t \in TemplateIdInputs : create_instance_from_template(t, 1)
       \/ \E i \in InstanceIdInputs, s \in InstanceStatus : move_instance(i, s)
       \/ \E i \in InstanceIdInputs : approve_instance(i)
       \/ \E i \in InstanceIdInputs : reject_instance(i)
       \/ \E i \in InstanceIdInputs : collect_instance(i)
       \/ refresh_pool
       \/ \E t \in TemplateIdInputs : delete_template(t)
       \/ \E i \in InstanceIdInputs : delete_instance(i)

NextTrip ==
    \/ TripCreate
    \/ TripMove
    \/ TripApprove
    \/ TripCollect
    \/ BetweenTrips

SpecTrip == Init /\ [][NextTrip]_vars

(***************************************************************************)
(* Properties.                                                             *)
(***************************************************************************)
\* The task_approved ledger rows that reference instance i.
ApprovedRows(rows, i) ==
    {n \in 1..Len(rows) :
        rows[n].reason = "task_approved" /\ rows[n].instance_id = i}

\* C1: every instance has exactly one task_approved ledger row referencing it
\* if it is archived, and none if it is not.
C1_OneApprovedRowIffArchived ==
    \A i \in DOMAIN instances :
        Cardinality(ApprovedRows(ledger, i)) = IF instances[i].archived THEN 1 ELSE 0

\* A collected instance beside an approved, not yet collected one, with a row
\* of another reason in the ledger.
C1_Witness ==
    /\ \E i, j \in DOMAIN instances :
          /\ instances[i].archived
          /\ instances[j].status = "done" /\ ~instances[j].archived
    /\ \E n \in 1..Len(ledger) : ledger[n].reason # "task_approved"

\* C2: a collect of a done instance succeeds and leaves exactly one
\* task_approved row for it, for the assigned kid and of the instance's
\* points_awarded; when the instance was already collected the call changes
\* neither the ledger, nor any balance, nor the instance.
C2_CollectIdempotent ==
    [][(/\ last'.op = "collect"
        /\ last'.id \in DOMAIN instances
        /\ instances[last'.id].status = "done")
       => LET i == last'.id IN
          /\ last'.res = "ok"
          /\ Cardinality(ApprovedRows(ledger', i)) = 1
          /\ \A n \in ApprovedRows(ledger', i) :
                /\ ledger'[n].kid_id = instances[i].assigned_kid_id
                /\ ledger'[n].amount = instances[i].points_awarded
          /\ instances[i].archived =>
                /\ ledger' = ledger
                /\ instances' = instances
                /\ \A k \in Kids : SumAmounts(ledger', k) = SumAmounts(ledger, k)
      ]_vars

\* A collect answered for an instance whose ledger row is followed by the row
\* of an instance collected later: the call was a repeated one.
C2_Witness ==
    /\ last.op = "collect" /\ last.res = "ok"
    /\ last.id \in DOMAIN instances
    /\ instances[last.id].archived
    /\ Len(ledger) = 2
    /\ ledger[1].instance_id = last.id
    /\ ledger[2].instance_id # last.id
    /\ ledger[2].kid_id # ledger[1].kid_id
    /\ ledger[2].amount # ledger[1].amount

\* C3: a move of an existing instance succeeds exactly for doing -> review and
\* review -> doing, and then sets the status; every other pair of statuses
\* answers IllegalTransition and changes no instance.
C3_MoveTable ==
    [][(last'.op = "move" /\ last'.id \in DOMAIN instances)
       => LET i == last'.id
              from == instances[i].status
              to == last'.arg
              legal == <<from, to>> \in {<<"doing", "review">>, <<"review", "doing">>}
          IN
          /\ legal => /\ last'.res = "ok"
                      /\ instances' = [instances EXCEPT ![i].status = to]
          /\ ~legal => /\ last'.res = "IllegalTransition"
                       /\ instances' = instances
      ]_vars

\* A done instance was asked to move back to doing and the move was refused.
C3_Witness ==
    /\ last.op = "move" /\ last.arg = "doing" /\ last.res = "IllegalTransition"
    /\ last.id \in DOMAIN instances
    /\ instances[last.id].status = "done"

\* The instances of template t that are still doing or in review.
Unresolved(t) ==
    {i \in DOMAIN instances :
        instances[i].template_id = t /\ instances[i].status \in {"doing", "review"}}

\* What C4 says of one step, with Reenablers(t) the requests allowed to make
\* template t available again.
C4_Step(Reenablers(_)) ==
    /\ (last'.op = "create" /\ last'.res = "ok") =>
          ~templates'[last'.id].available
    /\ (/\ last'.op = "create"
        /\ last'.id \in DOMAIN templates
        /\ ~templates[last'.id].available) =>
          /\ last'.res = "TemplateUnavailable"
          /\ instances' = instances
    /\ \A t \in DOMAIN templates \cap DOMAIN templates' :
          (~templates[t].available /\ templates'[t].available) =>
              [op |-> last'.op, id |-> last'.id] \in Reenablers(t)

ApprovesOf(t) ==
    {[op |-> "approve", id |-> i] :
        i \in {j \in DOMAIN instances : instances[j].template_id = t}}

\* C4 as claimed: after a successful createInstance the template is
\* unavailable and every further createInstance against it fails with
\* TemplateUnavailable, creating nothing, until an approve re-enables it.
C4_OnlyApproveReenables ==
    [][C4_Step(LAMBDA t : ApprovesOf(t))]_vars

\* C4 as amended: ... until an approve of one of its instances or a
\* refreshPool re-enables it.
C4_ApproveOrRefreshReenables ==
    [][C4_Step(LAMBDA t : ApprovesOf(t) \cup {[op |-> "refresh", id |-> 0]})]_vars

\* A createInstance was refused on a template hidden by its instance in flight.
C4_Witness ==
    /\ last.op = "create" /\ last.res = "TemplateUnavailable"
    /\ last.id \in DOMAIN templates
    /\ ~templates[last.id].available
    /\ Unresolved(last.id) # {}

\* C5 as claimed: each template has at most one unresolved instance.
C5_AtMostOneUnresolved ==
    \A t \in DOMAIN templates : Cardinality(Unresolved(t)) <= 1

\* An available template has no unresolved instance, a hidden one at most one.
OneOutstanding ==
    \A t \in DOMAIN templates :
        /\ Cardinality(Unresolved(t)) <= 1
        /\ templates[t].available => Unresolved(t) = {}

\* C5 as amended: in every state reached without refreshPool each template
\* has at most one unresolved instance: it holds at the start and every
\* request other than refreshPool keeps it.
C5_AtMostOneUnresolvedWithoutRefresh ==
    /\ (Init => OneOutstanding)
    /\ [][(OneOutstanding /\ last'.op # "refresh") => OneOutstanding']_vars

\* A template was offered again by an approve and taken a second time: one
\* instance of it is done, one unresolved, and the template is hidden.
C5_Witness ==
    \E t \in DOMAIN templates :
        /\ OneOutstanding
        /\ ~templates[t].available
        /\ Cardinality(Unresolved(t)) = 1
        /\ \E i \in DOMAIN instances :
              instances[i].template_id = t /\ instances[i].status = "done"

\* C6: every archived instance has status done.
C6_ArchivedImpliesDone ==
    \A i \in DOMAIN instances : instances[i].archived => instances[i].status = "done"

\* A reject was refused on a collected instance.
C6_Witness ==
    /\ last.op = "reject" /\ last.res = "NotInReview"
    /\ last.id \in DOMAIN instances
    /\ instances[last.id].archived

\* C7: an approve, successful or failed, leaves the ledger and every balance
\* as they were, and so does every other lifecycle request but collect.
C7_OnlyCollectChangesBalance ==
    [][(last'.op \in {"create", "move", "details", "approve", "reject",
                      "refresh", "reorder"})
       => /\ ledger' = ledger
          /\ \A k \in Kids : SumAmounts(ledger', k) = SumAmounts(ledger, k)
      ]_vars

\* An instance was approved while the ledger already held a collected reward.
C7_Witness ==
    /\ last.op = "approve" /\ last.res = "ok"
    /\ instances[last.id].status = "done"
    /\ ~instances[last.id].archived
    /\ \E k \in Kids : SumAmounts(ledger, k) > 0

\* The rent_paid ledger rows of kid k.
RentRows(rows, k) ==
    {n \in 1..Len(rows) : rows[n].reason = "rent_paid" /\ rows[n].kid_id = k}

\* The policy charge_rent_if_due works with: the stored one, or the defaults.
PolicyOf(k) ==
    IF k \in DOMAIN rent_policies
    THEN rent_policies[k]
    ELSE [rent_amount |-> 50, rent_day_of_month |-> 1, last_charged_on |-> NoDate]

\* C8: chargeRentIfDue charges exactly when today's day of the month is the
\* policy's rent day and last_charged_on is not today: it then appends one
\* rent_paid row of -|rent_amount| for the kid, whose balance drops by
\* |rent_amount|, sets last_charged_on to today and answers charged;
\* otherwise it answers not charged and leaves the ledger and
\* last_charged_on as they were.
C8_ChargeExactlyWhenDue ==
    [][(last'.op = "charge")
       => LET k == last'.id
              rp == PolicyOf(k)
              due == today.day = rp.rent_day_of_month /\ rp.last_charged_on # today
          IN
          /\ due =>
                /\ last'.res = "charged"
                /\ Len(ledger') = Len(ledger) + 1
                /\ SubSeq(ledger', 1, Len(ledger)) = ledger
                /\ ledger'[Len(ledger')].reason = "rent_paid"
                /\ ledger'[Len(ledger')].kid_id = k
                /\ ledger'[Len(ledger')].amount = -Abs(rp.rent_amount)
                /\ SumAmounts(ledger', k) = SumAmounts(ledger, k) - Abs(rp.rent_amount)
                /\ rent_policies'[k].last_charged_on = today
          /\ ~due =>
                /\ last'.res = "not_charged"
                /\ ledger' = ledger
                /\ rent_policies'[k].last_charged_on = rp.last_charged_on
      ]_vars

\* A kid charged on the rent day of one month is charged again on the same
\* day of the next month.
C8_Witness ==
    /\ last.op = "charge" /\ last.res = "charged"
    /\ \E m, n \in RentRows(ledger, last.id) :
          /\ ledger[m].created_at.day = ledger[n].created_at.day
          /\ ledger[m].created_at.month + 1 = ledger[n].created_at.month
          /\ ledger[n].created_at = today

\* C9: with the calendar never going back, no kid has two rent_paid rows of
\* the same date.
C9_OneChargePerKidPerDay ==
    \A k \in Kids : \A m, n \in RentRows(ledger, k) :
        ledger[m].created_at = ledger[n].created_at => m = n

\* A charge was asked again on the day the kid was already charged, after the
\* policy form was submitted, and was declined.
C9_Witness ==
    /\ last.op = "charge" /\ last.res = "not_charged"
    /\ last.id \in DOMAIN rent_policies
    /\ rent_policies[last.id].last_charged_on = today
    /\ rent_policies[last.id].rent_day_of_month = today.day
    /\ rent_policies[last.id].rent_amount # 50
    /\ \E n \in RentRows(ledger, last.id) : ledger[n].created_at = today

\* C10: each kid has at most one rent_paid row per calendar month.
C10_OneChargePerKidPerMonth ==
    \A k \in Kids : \A m, n \in RentRows(ledger, k) :
        ledger[m].created_at.month = ledger[n].created_at.month => m = n

\* The points the ledger rows referencing instance i add up to.
RECURSIVE PaidFor(_, _)
PaidFor(rows, i) ==
    IF rows = <<>> THEN 0
    ELSE (IF Head(rows).instance_id = i THEN Head(rows).amount ELSE 0)
         + PaidFor(Tail(rows), i)

\* C11: once the collect requests racing for a done instance have all
\* committed, the ledger holds exactly one task_approved row for the instance
\* and the rows referencing it add its points_awarded to the balance of the
\* assigned kid once.
C11_RacingCollectsPayOnce ==
    \A i \in DOMAIN instances :
        (/\ instances[i].archived
         /\ \A s \in Sessions : sessions[s].op = "collect" => sessions[s].id # i)
        => /\ Cardinality(ApprovedRows(ledger, i)) = 1
           /\ PaidFor(ledger, i) = instances[i].points_awarded
           /\ \A n \in ApprovedRows(ledger, i) :
                 ledger[n].kid_id = instances[i].assigned_kid_id

\* The ledger rows that reference instance i.
RowsOf(rows, i) == {n \in 1..Len(rows) : rows[n].instance_id = i}

\* C12: a createInstance on an available template succeeds, and so do the
\* moveInstance(review), the approve and the collect that follow it; when the
\* collect returns the instance is done and archived, the ledger holds exactly
\* one row for it, of its points_awarded and for its kid, and its template is
\* available.
C12_RoundTrip ==
    [][/\ (/\ last'.op = "create"
           /\ last'.id \in DOMAIN templates
           /\ templates[last'.id].available)
          => /\ last'.res = "ok"
             /\ next_instance_id \in DOMAIN instances'
             /\ instances'[next_instance_id].status = "doing"
       /\ TripInProgress => last'.res = "ok"
       /\ (TripInProgress /\ ~TripInProgress')
          => /\ last'.op = "collect"
             /\ \A i \in TripInstances :
                   /\ i \in DOMAIN instances'
                   /\ instances'[i].status = "done"
                   /\ instances'[i].archived
                   /\ Cardinality(RowsOf(ledger', i)) = 1
                   /\ \A n \in RowsOf(ledger', i) :
                         /\ ledger'[n].amount = instances'[i].points_awarded
                         /\ ledger'[n].kid_id = instances'[i].assigned_kid_id
                         /\ ledger'[n].reason = "task_approved"
                   /\ instances'[i].template_id \in DOMAIN templates'
                   /\ templates'[instances'[i].template_id].available
      ]_vars

\* A round trip has ended on a template of which the other kid holds an
\* unfinished instance, taken before a refresh of the pool.
C12_Witness ==
    /\ last.op = "collect" /\ last.res = "ok"
    /\ last.id \in DOMAIN instances
    /\ instances[last.id].assigned_kid_id = TripKid
    /\ instances[last.id].archived
    /\ Cardinality(RowsOf(ledger, last.id)) = 1
    /\ \E j \in DOMAIN instances :
          /\ instances[j].assigned_kid_id # TripKid
          /\ instances[j].template_id = instances[last.id].template_id
          /\ instances[j].status \in {"doing", "review"}

\* Every ledger row that references an instance references a stored one.
NoOrphanRows ==
    \A n \in 1..Len(ledger) :
        ledger[n].instance_id # NoInstance => ledger[n].instance_id \in DOMAIN instances

\* C13: no ledger row references a missing instance, in any reachable state;
\* a delete of an instance removes the rows that reference it and no other,
\* and takes what they added up to off the balance of the instance's kid.
C13_DeleteCascades ==
    /\ []NoOrphanRows
    /\ [][(last'.op = "delete" /\ last'.res = "ok")
          => LET i == last'.id IN
             /\ i \notin DOMAIN instances'
             /\ RowsOf(ledger', i) = {}
             /\ ledger' = SelectSeq(ledger, LAMBDA row : row.instance_id # i)
             /\ \A k \in Kids :
                   SumAmounts(ledger', k) =
                     SumAmounts(ledger, k)
                     - (IF k = instances[i].assigned_kid_id
                        THEN PaidFor(ledger, i) ELSE 0)
         ]_vars

\* An instance was deleted beside a collected one whose row is still in the
\* ledger, with a row that references no instance.
C13_Witness ==
    /\ last.op = "delete" /\ last.res = "ok"
    /\ last.id \notin DOMAIN instances
    /\ \E j \in DOMAIN instances :
          instances[j].archived /\ RowsOf(ledger, j) # {}
    /\ \E n \in 1..Len(ledger) : ledger[n].instance_id = NoInstance

\* The answers of a lifecycle request that went through.
Succeeded == {"ok"}

\* C14: a createInstance, moveInstance, updateDetails, approve, reject or
\* collect that fails leaves the templates, the instances, the ledger and the
\* rent policies exactly as they were.
C14_FailureChangesNothing ==
    [][(/\ last'.op \in {"create", "move", "details", "approve", "reject", "collect"}
        /\ last'.res \notin Succeeded)
       => /\ templates' = templates
          /\ instances' = instances
          /\ ledger' = ledger
          /\ rent_policies' = rent_policies
      ]_vars

\* A createInstance for a kid that does not exist broke the foreign key after
\* the service had hidden the template: the template is still offered, with a
\* row in the ledger and a rent policy stored.
C14_Witness ==
    /\ last.op = "create" /\ last.res = "IntegrityError"
    /\ last.id \in DOMAIN templates
    /\ templates[last.id].available
    /\ ledger # <<>>
    /\ rent_policies # <<>>

\* C15: a createInstance naming a template or a kid that does not exist
\* answers NotFound, and so does a moveInstance, updateDetails, approve,
\* reject or collect naming an instance that does not exist; none of them
\* creates or changes an instance, a ledger row or a rent policy.
C15_MissingIsNotFound ==
    [][(\/ /\ last'.op = "create"
           /\ (last'.id \notin DOMAIN templates \/ last'.arg \notin Kids)
        \/ /\ last'.op \in {"move", "details", "approve", "reject", "collect"}
           /\ last'.id \notin DOMAIN instances)
       => /\ last'.res = "NotFound"
          /\ instances' = instances
          /\ ledger' = ledger
          /\ rent_policies' = rent_policies
      ]_vars

\* The place (from 1) of id i in the duplicate-free list ids.
PlaceIn(ids, i) == CHOOSE n \in 1..Len(ids) : ids[n] = i

DuplicateFree(ids) ==
    \A m, n \in 1..Len(ids) : ids[m] = ids[n] => m = n

\* C16: a reorder with a duplicate-free list of ids gives every stored
\* instance that is listed, is in the given lane and (with a kid filter) is
\* the filter kid's, the zero-based place of its id in the list as
\* sort_order and changes nothing else of it; every other instance stays as
\* it is, no instance appears for an id not stored, and an empty list changes
\* nothing.
C16_ReorderSetsPlaces ==
    [][(last'.op = "reorder" /\ DuplicateFree(last'.arg[2]))
       => LET status == last'.arg[1]
              ids == last'.arg[2]
              filter == last'.id
              listed == {ids[n] : n \in 1..Len(ids)}
          IN
          /\ DOMAIN instances' = DOMAIN instances
          /\ \A i \in DOMAIN instances :
                IF /\ i \in listed
                   /\ instances[i].status = status
                   /\ (filter # NoFilter => instances[i].assigned_kid_id = filter)
                THEN instances'[i] =
                        [instances[i] EXCEPT !.sort_order = PlaceIn(ids, i) - 1]
                ELSE instances'[i] = instances[i]
          /\ ids = <<>> => instances' = instances
      ]_vars

\* C17: an updateDetails of an instance that is doing or in review succeeds,
\* storing at most DetailsMaxLen characters; of a done instance it answers
\* InstanceImmutable and changes no instance; and no request changes the
\* details of a done instance or takes it out of done.
C17_DetailsFrozenOnceDone ==
    [][/\ (last'.op = "details" /\ last'.id \in DOMAIN instances)
          => LET i == last'.id IN
             /\ instances[i].status \in {"doing", "review"}
                => /\ last'.res = "ok"
                   /\ instances'[i].details <= DetailsMaxLen
                   /\ instances' = [instances EXCEPT
                                       ![i].details = instances'[i].details]
             /\ instances[i].status = "done"
                => /\ last'.res = "InstanceImmutable"
                   /\ instances' = instances
       /\ \A i \in DOMAIN instances \cap DOMAIN instances' :
             instances[i].status = "done"
             => /\ instances'[i].details = instances[i].details
                /\ instances'[i].status = "done"
      ]_vars

\* An edit was refused on a collected instance whose text was written, and
\* cut to DetailsMaxLen, while it was still open.
C17_Witness ==
    /\ last.op = "details" /\ last.res = "InstanceImmutable"
    /\ last.id \in DOMAIN instances
    /\ instances[last.id].status = "done"
    /\ instances[last.id].archived
    /\ instances[last.id].details = DetailsMaxLen

\* C18: an approve of an instance in review succeeds and leaves it done, with
\* approved_at set to the time of the call and archived false, and its
\* template available whatever it was before; an approve of an instance in any
\* other status answers NotInReview and changes no template, instance or
\* ledger row.
C18_ApproveOnlyInReview ==
    [][(last'.op = "approve" /\ last'.id \in DOMAIN instances)
       => LET i == last'.id
              t == instances[i].template_id
          IN
          /\ instances[i].status = "review"
             => /\ last'.res = "ok"
                /\ instances' = [instances EXCEPT ![i].status = "done",
                                                  ![i].approved_at = today,
                                                  ![i].archived = FALSE]
                /\ instances'[i].approved_at # NoDate
                /\ t \in DOMAIN templates'
                /\ templates'[t].available
                /\ \A u \in DOMAIN templates \ {t} : templates'[u] = templates[u]
          /\ instances[i].status # "review"
             => /\ last'.res = "NotInReview"
                /\ templates' = templates
                /\ instances' = instances
                /\ ledger' = ledger
      ]_vars

\* An approve went through for an instance whose template the other kid had
\* taken again after a refresh of the pool: the template is offered again
\* although an instance of it is unfinished.
C18_Witness ==
    /\ last.op = "approve" /\ last.res = "ok"
    /\ last.id \in DOMAIN instances
    /\ instances[last.id].status = "done"
    /\ ~instances[last.id].archived
    /\ templates[instances[last.id].template_id].available
    /\ \E j \in DOMAIN instances :
          /\ instances[j].template_id = instances[last.id].template_id
          /\ instances[j].status \in {"doing", "review"}

\* C19: a reject of an instance in review succeeds and changes its status to
\* doing and nothing else: not its approved_at, archived, details or
\* points_awarded, no other instance, no template and no ledger row; a reject
\* of an instance in any other status answers NotInReview and changes
\* nothing.
C19_RejectChangesStatusOnly ==
    [][(last'.op = "reject" /\ last'.id \in DOMAIN instances)
       => LET i == last'.id IN
          /\ templates' = templates
          /\ ledger' = ledger
          /\ rent_policies' = rent_policies
          /\ DOMAIN instances' = DOMAIN instances
          /\ \A j \in DOMAIN instances \ {i} : instances'[j] = instances[j]
          /\ instances'[i].approved_at = instances[i].approved_at
          /\ instances'[i].archived = instances[i].archived
          /\ instances'[i].details = instances[i].details
          /\ instances'[i].points_awarded = instances[i].points_awarded
          /\ instances[i].status = "review"
             => last'.res = "ok" /\ instances'[i].status = "doing"
          /\ instances[i].status # "review"
             => last'.res = "NotInReview" /\ instances' = instances
      ]_vars

\* A reject sent an instance with a text back to doing while its template
\* stays hidden, the ledger holds the reward of another instance and a rent
\* policy is stored.
C19_Witness ==
    /\ last.op = "reject" /\ last.res = "ok"
    /\ last.id \in DOMAIN instances
    /\ instances[last.id].status = "doing"
    /\ instances[last.id].details = DetailsMaxLen
    /\ ~templates[instances[last.id].template_id].available
    /\ \E j \in DOMAIN instances : j # last.id /\ RowsOf(ledger, j) # {}
    /\ rent_policies # <<>>

\* C20: of the chargeRentIfDue calls racing for one kid and one due date at
\* most one appends a rent_paid row: no session commits a charge for a kid
\* whose policy already records a charge on the date the session read.
C20_RacingChargesChargeOnce ==
    [][\A s \in Sessions :
          (/\ sessions[s].op = "charge"
           /\ sessions'[s] = Idle
           /\ Len(ledger') = Len(ledger) + 1
           /\ ledger'[Len(ledger')].reason = "rent_paid")
          => ~(/\ sessions[s].id \in DOMAIN rent_policies
               /\ rent_policies[sessions[s].id].last_charged_on = sessions[s].on)
      ]_vars

\* C21: of the createInstance calls racing for one available template at most
\* one creates an instance: a session that commits after the template has
\* been hidden answers TemplateUnavailable and creates nothing.
C21_RacingCreatesCreateOnce ==
    [][\A s \in Sessions :
          (/\ sessions[s].op = "create"
           /\ sessions'[s] = Idle
           /\ sessions[s].id \in DOMAIN templates
           /\ ~templates[sessions[s].id].available)
          => /\ last'.res = "TemplateUnavailable"
             /\ instances' = instances
      ]_vars

\* Every instance references a stored template.
TemplateOfEveryInstanceStored ==
    \A i \in DOMAIN instances : instances[i].template_id \in DOMAIN templates

\* Whether an instance has ever been stored: the primary key of
\* task_instances has moved on.  In the catalog every instance is one of the
\* template handed out.
EverInstantiated == next_instance_id > 1

\* C22 as claimed: once an instance has been created from a template, the
\* template remains, also after the instance has been deleted.
C22_KeptOnceEverReferenced ==
    EverInstantiated => HandedOut \in DOMAIN templates

\* C22 as amended: a template remains while a stored instance references it:
\* a delete of a stored template is refused, changing no template, exactly
\* when some stored instance references it, and otherwise removes that
\* template and no other.
C22_KeptWhileReferenced ==
    /\ []TemplateOfEveryInstanceStored
    /\ [][(last'.op = "delete_template" /\ last'.id \in DOMAIN templates)
          => LET t == last'.id
                 referenced == \E i \in DOMAIN instances :
                                  instances[i].template_id = t
             IN
             /\ instances' = instances
             /\ referenced => /\ last'.res = "refused"
                               /\ templates' = templates
             /\ ~referenced => /\ last'.res = "ok"
                                /\ templates' =
                                     [u \in DOMAIN templates \ {t} |-> templates[u]]
         ]_vars

\* The seeded template, the only one handed out, was deleted after its
\* instances were, while the new template is in the catalog.
C22_Witness ==
    /\ last.op = "delete_template" /\ last.res = "ok" /\ last.id = HandedOut
    /\ HandedOut \notin DOMAIN templates
    /\ EverInstantiated
    /\ instances = <<>>
    /\ MaxTemplateId \in DOMAIN templates

\* C23: a createInstance gives the new instance the default_points its
\* template has at that moment as points_awarded; no request changes the
\* points_awarded of a stored instance; and the row a collect appends credits
\* the instance's points_awarded to its kid.
C23_PointsSnapshot ==
    [][/\ (last'.op = "create" /\ last'.res = "ok")
          => /\ DOMAIN instances' = DOMAIN instances \cup {next_instance_id}
             /\ instances'[next_instance_id].points_awarded =
                   templates[last'.id].default_points
       /\ \A i \in DOMAIN instances \cap DOMAIN instances' :
             instances'[i].points_awarded = instances[i].points_awarded
       /\ (last'.op = "collect" /\ ledger' # ledger)
          => /\ Len(ledger') = Len(ledger) + 1
             /\ ledger'[Len(ledger')].instance_id = last'.id
             /\ ledger'[Len(ledger')].amount = instances[last'.id].points_awarded
             /\ ledger'[Len(ledger')].kid_id = instances[last'.id].assigned_kid_id
      ]_vars

\* An instance of the 8-point template was collected after its template had
\* been offered again by the approve and taken a second time: the template is
\* hidden, holds an instance in progress, and the ledger credits the 8 points.
C23_Witness ==
    /\ last.op = "collect" /\ last.res = "ok"
    /\ last.id \in DOMAIN instances
    /\ instances[last.id].archived
    /\ instances[last.id].points_awarded = SeedPoints[2]
    /\ ~templates[instances[last.id].template_id].available
    /\ \E j \in DOMAIN instances \ {last.id} :
          /\ instances[j].template_id = instances[last.id].template_id
          /\ instances[j].status = "doing"
    /\ ledger # <<>>
    /\ ledger[Len(ledger)].instance_id = last.id
    /\ ledger[Len(ledger)].amount = instances[last.id].points_awarded

\* C24: no moveInstance, approve, reject, collect, updateDetails, refreshPool
\* or setColumnOrder changes the status or the approved_at of an instance
\* that is done, and none makes an archived instance not archived.
C24_DoneIsAbsorbing ==
    [][\A i \in DOMAIN instances :
          /\ i \in DOMAIN instances'
          /\ instances[i].status = "done"
             => /\ instances'[i].status = "done"
                /\ instances'[i].approved_at = instances[i].approved_at
          /\ instances[i].archived => instances'[i].archived
      ]_vars

\* An approve was refused on a collected instance on a day after the one it
\* was approved on.
C24_Witness ==
    /\ last.op = "approve" /\ last.res = "NotInReview"
    /\ last.id \in DOMAIN instances
    /\ instances[last.id].status = "done"
    /\ instances[last.id].archived
    /\ instances[last.id].approved_at # today
    /\ instances[last.id].approved_at # NoDate

\* What the rows of one reason add up to for kid k.
RECURSIVE ReasonSum(_, _, _)
ReasonSum(rows, k, reason) ==
    IF rows = <<>> THEN 0
    ELSE (IF Head(rows).kid_id = k /\ Head(rows).reason = reason
          THEN Head(rows).amount ELSE 0)
         + ReasonSum(Tail(rows), k, reason)

\* The points_awarded of the instances in S, added up.
RECURSIVE PointsOf(_)
PointsOf(S) ==
    IF S = {} THEN 0
    ELSE LET i == CHOOSE x \in S : TRUE
         IN instances[i].points_awarded + PointsOf(S \ {i})

\* The stored instances of kid k that have been collected.
Collected(k) ==
    {i \in DOMAIN instances :
        instances[i].assigned_kid_id = k /\ instances[i].archived}

GatedOps ==
    {"approve", "reject", "delete", "create_template", "delete_template",
     "update_rent", "adjust", "charge_rent"}

\* C26: a request to a gamemaster-gated route changes no stored row while the
\* session's gm_unlocked is false; gm_unlocked becomes true only in an
\* unlock request made with the password of the gamemaster logged in; and it
\* is false after a login, a lock and a logout.
C26_LockedSessionChangesNothing ==
    [][/\ (last'.op \in GatedOps /\ ~session.gm_unlocked)
          => /\ templates' = templates
             /\ instances' = instances
             /\ ledger' = ledger
             /\ rent_policies' = rent_policies
             /\ next_template_id' = next_template_id
             /\ next_instance_id' = next_instance_id
       /\ (~session.gm_unlocked /\ session'.gm_unlocked)
          => /\ last'.op = "unlock" /\ last'.res = "ok"
             /\ session.user_id \in DOMAIN users
             /\ users[session.user_id].role = "gamemaster"
             /\ hash_password(last'.arg) = users[session.user_id].password_hash
             /\ session'.user_id = session.user_id
       /\ (\/ last'.op = "login" /\ last'.res = "ok"
           \/ last'.op \in {"lock", "logout"})
          => ~session'.gm_unlocked
      ]_vars

\* An approve was turned away in a session that is logged in and locked,
\* for an instance in review, after the session had been unlocked before:
\* the ledger holds the adjustment made then.
C26_Witness ==
    /\ last.op = "approve" /\ last.res = "board"
    /\ session.user_id # NoUser
    /\ ~session.gm_unlocked
    /\ last.id \in DOMAIN instances
    /\ instances[last.id].status = "review"
    /\ ledger # <<>>

====
